---- MODULE Spec2Model ----
(***************************************************************************)
(* Crash-game ("aviator") settlement endpoints of src/EthBot.py:           *)
(*   api_aviator_start, api_aviator_cashout, api_aviator_status, api_tap.  *)
(*                                                                         *)
(* Every request runs on its own pooled PostgreSQL connection, in one      *)
(* READ COMMITTED transaction that begins with its first statement and     *)
(* is committed when the `async with conn_pool.connection()` block is left *)
(* normally and rolled back when it is left by an exception.  One action   *)
(* of the model is one step of one request: a SQL statement that reads or  *)
(* locks rows other requests can see, together with the CPU-only code and  *)
(* the statements invisible to other requests that follow it (an INSERT    *)
(* before its commit, a commit right after the last lock was taken).  The  *)
(* requests in flight form a bag of records; a request's uncommitted row   *)
(* versions are its field tx; a row that occurs in the tx of a request is  *)
(* row-locked by it, and an UPDATE of that row by another request waits    *)
(* until the holder ends, then applies to the row version it committed.    *)
(*                                                                         *)
(* Numbers.  Multipliers and crash points are fixed-point with Scale       *)
(* units per 1.0.  Money is counted in units of 1/Scale cent, so that the  *)
(* product bet_amount * current_multiplier of the code is exact.  Floating *)
(* point rounding of the columns is not modelled.                          *)
(*                                                                         *)
(* Spec is the specification of the endpoints; SpecSequential is Spec     *)
(* with a client that sends a request only when none is being handled.    *)
(* The variable ledger records the amounts of the committed balance       *)
(* statements and is read by no action.  SpecFunctions applies the        *)
(* two pure functions _multiplier_at_ms and _sample_crash_point to inputs  *)
(* drawn in its initial state; a float power beyond the largest finite     *)
(* float gives the value OverflowError, and -math.log is a table.          *)
(***************************************************************************)
EXTENDS Integers, Sequences, FiniteSets, Bags, TLC

\* ---------------------------------------------------------------- bounds
MaxTime     == 1    \* server clock runs over 0..MaxTime ticks
MaxRequests == 3    \* requests that are given a connection, in total
MaxElapsed  == 6    \* elapsed times handed to _multiplier_at_ms, in ticks

\* AsyncConnectionPool(url): min_size = max_size = 4 connections
PoolSize == 4

\* the clock value, in ticks, after a round was left alone for 100 minutes
LateTime == 6000

\* ------------------------------------------------------- number formats
Scale         == 10000   \* fixed-point denominator of multipliers
TickMs        == 1000    \* milliseconds per clock tick
GrowthPerTick == 11275   \* (1 + K) ** TickMs with K = 0.00012, in 1/Scale
Cent          == Scale   \* one smallest currency unit, in money units

Users      == {1, 2}            \* chat_ids that have a users row
Registered == {1}               \* users with payment_status = 'registered'
InitBalance == [u \in Users |-> IF u = 1 THEN 3 * Cent ELSE 0]
BetAmounts == {0, 2 * Cent}     \* bet_amount values sent by clients
Seeds      == {"s1"}            \* values of secrets.token_hex(16)
Terminal   == {"crashed", "cashed"}

NoRow == [none |-> TRUE]
Null  == -1                     \* SQL NULL of a numeric / timestamp column
OverflowError == -2             \* no value: the float operation raised
ClientData == {Null, 30000}     \* a multiplier the client claims, or none

\* ------------------------------------------------------------ functions
RECURSIVE Pow(_)
Pow(ticks) == IF ticks = 0 THEN Scale
              ELSE (Pow(ticks - 1) * GrowthPerTick) \div Scale

\* natural logarithms in units of 10^-6: of (1 + K) ** TickMs and of the
\* largest finite float; a float power beyond it raises OverflowError
LnGrowthPerTick == 119993
LnFloatMax      == 709782712
Overflows(ms) == (ms \div TickMs) * LnGrowthPerTick > LnFloatMax

\* _multiplier_at_ms: (1 + K) ** ms
_multiplier_at_ms(ms) ==
    IF Overflows(ms) THEN OverflowError ELSE Pow(ms \div TickMs)

\* elapsed_ms = (now - start_time).total_seconds() * 1000
ElapsedMs(t, start_time) == (t - start_time) * TickMs

\* what a request body holding a multiplier would give if it were used
CurrentMultiplierOfClient(client, t, start_time) ==
    IF client # Null THEN client
    ELSE _multiplier_at_ms(ElapsedMs(t, start_time))

\* `elapsed_ms = ...; current_multiplier = _multiplier_at_ms(elapsed_ms)`:
\* nothing of the request body but chat_id and round_id is read
CurrentMultiplier(client, t, start_time) ==
    _multiplier_at_ms(ElapsedMs(t, start_time))

\* the comparison the wrong way round
HasCrashedInverted(m, crash_point) == m <= crash_point

\* `current_multiplier >= round_data["crash_point"]`
HasCrashed(m, crash_point) == m >= crash_point

\* a test that lets a cashed round through to the crash detection
IsNotCrashed(status) == status # "crashed"

\* `if status == "active"` of api_aviator_status
IsActive(status) == status = "active"

\* `payout = bet_amount * current_multiplier`
Payout(bet_amount, m) == (bet_amount * m) \div Scale

\* a debit that is applied twice
DebitTwice(bal, bet_amount) == bal - bet_amount - bet_amount

\* `SET balance = balance - %s`
Debit(bal, bet_amount) == bal - bet_amount

\* `SET balance = balance + %s`
Credit(bal, payout) == bal + payout

\* `SET balance = COALESCE(balance,0) + 0.01` of api_tap
TapAmount == Cent

\* a check that only refuses an empty balance
InsufficientWhenEmpty(bal, bet_amount) == bal <= 0

\* `user["balance"] < bet_amount`
Insufficient(bal, bet_amount) == bal < bet_amount

\* Python round(): the nearest multiple of unit, ties to the even one
RoundHalfEven(x, unit) ==
    LET q == x \div unit
        r == x % unit
    IN  IF 2 * r > unit \/ (2 * r = unit /\ q % 2 = 1) THEN (q + 1) * unit
        ELSE q * unit

Max(a, b) == IF a >= b THEN a ELSE b

\* random.random(): a float in [0, 1), here in units of 1/Scale
AllDraws   == {0, 1, 10, 100, 1000, 5000, 9000, 9139, 9900, 9990, 9999}
RoundDraws == {9139, 9990}      \* the draws behind the rounds of Spec

\* -math.log(u) in units of 1/Scale; the entry of 0 is that of 1e-9
NegLog == (0 :> 207233) @@ (1 :> 92103) @@ (10 :> 69078) @@ (100 :> 46052)
          @@ (1000 :> 23026) @@ (5000 :> 6931) @@ (9000 :> 1054)
          @@ (9139 :> 900) @@ (9900 :> 101) @@ (9990 :> 10) @@ (9999 :> 1)

CrashFloor == 10200             \* the 1.02 of _sample_crash_point

\* a sampler that starts at 1.0 and has no floor
_sample_crash_point_unfloored(u) ==
    RoundHalfEven(Scale + (((NegLog[u] * 10) \div 11) * 22) \div 10, Scale \div 100)

\* _sample_crash_point for the draw u: u = random.random() or 1e-9;
\* extra = -log(u) / 1.1; crash = 1.02 + extra * 2.2;
\* max(1.02, round(crash, 2))
_sample_crash_point(u) ==
    LET extra == (NegLog[u] * 10) \div 11
        crash == CrashFloor + (extra * 22) \div 10
    IN  Max(CrashFloor, RoundHalfEven(crash, Scale \div 100))

CrashPoints == {_sample_crash_point(u) : u \in RoundDraws}

Merge(f, g) == [x \in (DOMAIN f) \cup (DOMAIN g) |->
                   IF x \in DOMAIN g THEN g[x] ELSE f[x]]

EmptyTx == [rounds |-> <<>>, plays |-> <<>>, bal |-> <<>>]

\* a connection that commits each statement as it is executed
OnExceptionKeep(t) == t

\* what the connection context manager makes durable when the block is
\* left by an exception: nothing (rollback)
OnException(t) == EmptyTx

\* what it makes durable when the block is left normally: everything
OnExit(t) == t

\* round(x, 2) as applied to multipliers and to amounts of money
Round2Mult(x)  == RoundHalfEven(x, Scale \div 100)
Round2Money(x) == RoundHalfEven(x, Cent)

RoundIds == 0 .. MaxRequests    \* round_id values sent by clients

NoResp == [code |-> 0, kind |-> "none", chat_id |-> 0, round_id |-> 0,
           bet_amount |-> 0, seen |-> "none", status |-> "none",
           multiplier |-> Null, payout |-> Null, crash_point |-> Null,
           balance |-> Null, start_time |-> Null, seed |-> "none",
           at |-> "none"]

\* a request as it arrives; client is what its body holds besides the
\* fields the handler reads, t the clock value the handler has read
NewReq(kind, u, r, b, client) ==
    [kind |-> kind, chat_id |-> u, round_id |-> r, bet_amount |-> b,
     client |-> client, pc |-> "arrive", round_data |-> NoRow, t |-> Null,
     m |-> Null, payout |-> Null, tx |-> EmptyTx]

\* the response to request q
Response(q, code, status) ==
    [NoResp EXCEPT !.code = code, !.kind = q.kind, !.chat_id = q.chat_id,
                   !.round_id = q.round_id, !.bet_amount = q.bet_amount,
                   !.seen = IF q.round_data = NoRow THEN "none"
                            ELSE q.round_data.status,
                   !.status = status, !.at = q.pc]

\* a start response that gives the crash point away
StartResponseWithCrashPoint(q, id, round) ==
    [Response(q, 200, "started") EXCEPT
        !.round_id = id, !.seed = round.seed,
        !.start_time = round.start_time, !.crash_point = round.crash_point]

\* `return jsonify({"ok": True, "round_id": ..., "seed": ..., "start_time": ...})`
StartResponse(q, id, round) ==
    [Response(q, 200, "started") EXCEPT
        !.round_id = id, !.seed = round.seed, !.start_time = round.start_time]

VARIABLES
    now,        \* server clock, in ticks
    balance,    \* committed users.balance, by chat_id
    rounds,     \* committed aviator_rounds, by id
    plays,      \* committed aviator_plays, by round_id
    next_id,    \* next value of the aviator_rounds id sequence
    inflight,   \* bag of the requests being handled
    resp,       \* the response sent by the step just taken, or NoResp
    hist,       \* per round: number of committed settlements, by kind
    admitted,   \* number of requests given a connection so far
    probe,      \* inputs and results of the functions applied on their own
    ledger      \* per user and endpoint: sum of the amounts of the committed
                \* balance statements

vars == <<now, balance, rounds, plays, next_id, inflight, resp, hist, admitted,
          probe, ledger>>
db   == <<balance, rounds, plays>>

Reqs == BagToSet(inflight)

NoProbe == [t1 |-> Null, t2 |-> Null, u |-> Null,
            m1 |-> Null, m2 |-> Null, crash |-> Null]

\* a row is found whatever chat_id the request names
FindRoundOfAnyone(r, u) == r \in DOMAIN rounds

\* `FROM aviator_rounds WHERE id = %s AND chat_id = %s`
FindRound(r, u) == r \in DOMAIN rounds /\ rounds[r].chat_id = u

\* ------------------------------------------------------- database views
\* rows as request q sees them: committed rows overlaid by its own writes
RoundsOf(q) == Merge(rounds, q.tx.rounds)
PlaysOf(q)  == Merge(plays, q.tx.plays)
BalOf(q)    == Merge(balance, q.tx.bal)

\* row-level locks: a row written by another request that has not ended
RoundLocked(q, r) == \E h \in Reqs \ {q} : r \in DOMAIN h.tx.rounds
PlayLocked(q, r)  == \E h \in Reqs \ {q} : r \in DOMAIN h.tx.plays
\* a users table without row locks
UserNeverLocked(q, u) == FALSE

UserLocked(q, u) == \E h \in Reqs \ {q} : u \in DOMAIN h.tx.bal

\* the requests whose row lock q's next statement waits for
Holders(q) ==
    CASE q.pc \in {"co_crash_round", "co_upd_round", "qs_crash_round"} ->
            {h \in Reqs \ {q} : q.round_id \in DOMAIN h.tx.rounds}
      [] q.pc \in {"co_crash_play", "co_upd_play", "qs_crash_play"} ->
            {h \in Reqs \ {q} : q.round_id \in DOMAIN h.tx.plays}
      [] q.pc = "st_debit" ->
            {h \in Reqs \ {q} : q.chat_id \in DOMAIN h.tx.bal}
      [] OTHER -> {}

RECURSIVE WaitClosure(_, _)
WaitClosure(S, n) ==
    IF n = 0 THEN S
    ELSE WaitClosure(S \cup UNION {Holders(h) : h \in S}, n - 1)

\* q is on a cycle of the waits-for graph
InDeadlock(q) == q \in WaitClosure(Holders(q), PoolSize)

\* an UPDATE of every round of the player
SetStatusOfPlayer(q, status, t) ==
    [r \in {x \in DOMAIN RoundsOf(q) : RoundsOf(q)[x].chat_id = q.chat_id} |->
        [RoundsOf(q)[r] EXCEPT !.status = status, !.end_time = t]]

\* `UPDATE aviator_rounds SET status=%s, end_time=%s WHERE id=%s`: the row
\* versions it writes
SetStatus(q, status, t) ==
    (q.round_id :> [RoundsOf(q)[q.round_id] EXCEPT
                       !.status = status, !.end_time = t])

\* an UPDATE that also overwrites the bet with the payout
RecordWinOverBet(q) ==
    (q.round_id :> [PlaysOf(q)[q.round_id] EXCEPT
                       !.cashout_multiplier = q.m, !.payout = q.payout,
                       !.bet_amount = q.payout, !.outcome = "win"])

\* `UPDATE aviator_plays SET cashout_multiplier=%s, payout=%s,
\* outcome='win' WHERE round_id AND chat_id`: the row version it writes
RecordWin(q) ==
    (q.round_id :> [PlaysOf(q)[q.round_id] EXCEPT
                       !.cashout_multiplier = q.m, !.payout = q.payout,
                       !.outcome = "win"])

\* a crash branch that gives the bet back
RecordLossWithRefund(q) ==
    [q.tx EXCEPT
        !.plays = Merge(@, (q.round_id :>
                     [PlaysOf(q)[q.round_id] EXCEPT !.outcome = "lose"])),
        !.bal = Merge(@, (q.chat_id :>
                     Credit(BalOf(q)[q.chat_id],
                            PlaysOf(q)[q.round_id].bet_amount)))]

\* `UPDATE aviator_plays SET outcome='lose' WHERE round_id AND chat_id`, the
\* last statement of a crash branch: the writes of q when it commits
RecordLoss(q) ==
    [q.tx EXCEPT
        !.plays = Merge(@, (q.round_id :>
                     [PlaysOf(q)[q.round_id] EXCEPT !.outcome = "lose"]))]

\* a round row inserted as already ended
NewRoundEnded(chat_id, seed, crash_point, t) ==
    [chat_id |-> chat_id, seed |-> seed, crash_point |-> crash_point,
     start_time |-> t, end_time |-> t, status |-> "active"]

\* `INSERT INTO aviator_rounds (chat_id, seed, crash_point, start_time,
\* status) VALUES (..., 'active')`; end_time defaults to NULL
NewRound(chat_id, seed, crash_point, t) ==
    [chat_id |-> chat_id, seed |-> seed, crash_point |-> crash_point,
     start_time |-> t, end_time |-> Null, status |-> "active"]

\* `INSERT INTO aviator_plays (round_id, chat_id, bet_amount, outcome)
\* VALUES (..., 'none')`; cashout_multiplier and payout default to NULL
NewPlay(chat_id, bet_amount) ==
    [chat_id |-> chat_id, bet_amount |-> bet_amount,
     cashout_multiplier |-> Null, payout |-> Null, outcome |-> "none"]

NoHist == [cashed |-> 0, crashed_by_status |-> 0, crashed_by_cashout |-> 0]

\* ------------------------------------------------------- ending a request
NoLedger == [u \in Users |-> [start |-> 0, cashout |-> 0, tap |-> 0]]

\* the amount in the balance statement of request q
Amount(q) == CASE q.kind = "start" -> q.bet_amount
               [] q.kind = "cashout" -> q.payout
               [] q.kind = "tap" -> TapAmount
               [] OTHER -> 0

\* make the row versions in t, written by request q, durable; ev is the
\* settlement committed for round r
Install(q, t, r, ev) ==
    /\ ledger'  = [u \in Users |->
                     IF u \in DOMAIN t.bal
                     THEN [ledger[u] EXCEPT ![q.kind] = @ + Amount(q)]
                     ELSE ledger[u]]
    /\ rounds'  = Merge(rounds, t.rounds)
    /\ plays'   = Merge(plays, t.plays)
    /\ balance' = Merge(balance, t.bal)
    /\ hist'    = [x \in DOMAIN rounds' |->
                     LET old == IF x \in DOMAIN hist THEN hist[x] ELSE NoHist
                     IN  IF x = r /\ ev # "none"
                         THEN [old EXCEPT ![ev] = @ + 1] ELSE old]

\* request q of the bag ends (or, with q not yet in the bag, ends on
\* arrival); the previous response has gone out
Finish(q, response, t, ev) ==
    /\ resp = NoResp
    /\ Install(q, t, q.round_id, ev)
    /\ inflight' = IF q \in Reqs THEN inflight (-) SetToBag({q}) ELSE inflight
    /\ resp' = response
    /\ UNCHANGED <<now, admitted, probe>>

\* request q of the bag goes on as q2, touching no committed row
Step(q, q2) ==
    /\ resp = NoResp
    /\ inflight' = (inflight (-) SetToBag({q})) (+) SetToBag({q2})
    /\ resp' = NoResp
    /\ UNCHANGED <<now, balance, rounds, plays, hist, admitted, probe, ledger>>

\* the arriving request q takes a connection of the pool and goes on
Admit(q) ==
    /\ resp = NoResp
    /\ admitted < MaxRequests
    /\ admitted' = admitted + 1
    /\ inflight' = inflight (+) SetToBag({q})
    /\ resp' = NoResp
    /\ UNCHANGED <<now, balance, rounds, plays, hist, probe, ledger>>

Init ==
    /\ now = 0
    /\ balance = InitBalance
    /\ rounds = <<>>
    /\ plays = <<>>
    /\ next_id = 1
    /\ inflight = EmptyBag
    /\ resp = NoResp
    /\ hist = <<>>
    /\ admitted = 0
    /\ probe = NoProbe
    /\ ledger = NoLedger

\* the server clock advances
Tick ==
    /\ resp = NoResp
    /\ now < MaxTime
    /\ now' = now + 1
    /\ resp' = NoResp
    /\ UNCHANGED <<balance, rounds, plays, next_id, inflight, hist, admitted,
                   probe, ledger>>

\* nobody calls for a long time while a round is running
LongIdle ==
    /\ resp = NoResp
    /\ inflight = EmptyBag
    /\ now <= MaxTime
    /\ \E r \in DOMAIN rounds : rounds[r].status = "active"
    /\ now' = LateTime
    /\ resp' = NoResp
    /\ UNCHANGED <<balance, rounds, plays, next_id, inflight, hist, admitted,
                   probe, ledger>>

\* ------------------------------------------------------ api_aviator_start
\* request arrives; `if not chat_id or bet_amount <= 0: return 400`;
\* SELECT balance, payment_status; registration and balance checks
StartRequest ==
    /\ BagCardinality(inflight) < PoolSize
    /\ \E u \in Users, b \in BetAmounts :
         LET q == NewReq("start", u, 0, b, Null)
         IN  IF b <= 0
             THEN Finish(q, Response(q, 400, "invalid"), EmptyTx, "none")
             ELSE IF u \notin Registered
             THEN Finish(q, Response(q, 403, "not_registered"), OnExit(q.tx), "none")
             ELSE IF Insufficient(BalOf(q)[u], b)
             THEN Finish(q, Response(q, 403, "insufficient"), OnExit(q.tx), "none")
             ELSE Admit([q EXCEPT !.pc = "st_debit"])
    /\ UNCHANGED next_id

\* UPDATE users SET balance = balance - bet_amount
StartDebit ==
    /\ \E q \in Reqs :
         /\ q.pc = "st_debit"
         /\ ~UserLocked(q, q.chat_id)
         /\ Step(q, [q EXCEPT !.pc = "st_insert",
                       !.tx.bal = Merge(@, (q.chat_id :>
                           Debit(BalOf(q)[q.chat_id], q.bet_amount)))])
    /\ UNCHANGED next_id

\* draw the seed, sample the crash point, read the clock, INSERT INTO
\* aviator_rounds RETURNING id, INSERT INTO aviator_plays, conn.commit(),
\* return
StartInsert ==
    \E q \in Reqs, seed \in Seeds, u \in RoundDraws :
      /\ q.pc = "st_insert"
      /\ LET round == NewRound(q.chat_id, seed, _sample_crash_point(u), now)
             play  == NewPlay(q.chat_id, q.bet_amount)
             t     == [q.tx EXCEPT !.rounds = Merge(@, (next_id :> round)),
                                   !.plays  = Merge(@, (next_id :> play))]
         IN  Finish(q, StartResponse(q, next_id, round), OnExit(t), "none")
      /\ next_id' = next_id + 1

\* ---------------------------------------------------- api_aviator_cashout
\* request arrives; `if not chat_id or not round_id: return 400`;
\* SELECT ... FROM aviator_rounds WHERE id AND chat_id AND status='active'
CashoutRequest ==
    /\ BagCardinality(inflight) < PoolSize
    /\ \E u \in Users, r \in RoundIds, client \in ClientData :
         LET q == NewReq("cashout", u, r, 0, client)
             found == FindRound(r, u) /\ rounds[r].status = "active"
         IN  IF r = 0
             THEN Finish(q, Response(q, 400, "invalid"), EmptyTx, "none")
             ELSE IF ~found
             THEN Finish(q, Response(q, 404, "not_found_or_ended"),
                         OnExit(q.tx), "none")
             ELSE Admit([q EXCEPT !.pc = "co_clock", !.round_data = rounds[r]])
    /\ UNCHANGED next_id

\* read the clock, compute current_multiplier, choose the branch; in the
\* paying branch SELECT bet_amount FROM aviator_plays and compute the payout
CashoutClock ==
    /\ \E q \in Reqs :
         /\ q.pc = "co_clock"
         /\ LET m == CurrentMultiplier(q.client, now, q.round_data.start_time)
            IN  IF m = OverflowError
                THEN Finish(q, Response(q, 500, "overflow"), OnException(q.tx),
                            "none")
                ELSE IF HasCrashed(m, q.round_data.crash_point)
                THEN Step(q, [q EXCEPT !.pc = "co_crash_round", !.t = now,
                                       !.m = m])
                ELSE Step(q, [q EXCEPT !.pc = "co_upd_play", !.t = now, !.m = m,
                         !.payout = Payout(PlaysOf(q)[q.round_id].bet_amount, m)])
    /\ UNCHANGED next_id

\* UPDATE aviator_rounds SET status='crashed', end_time=now WHERE id
CashoutCrashRound ==
    /\ \E q \in Reqs :
         /\ q.pc = "co_crash_round"
         /\ ~RoundLocked(q, q.round_id)
         /\ Step(q, [q EXCEPT !.pc = "co_crash_play",
                       !.tx.rounds = Merge(@, SetStatus(q, "crashed", now))])
    /\ UNCHANGED next_id

\* UPDATE aviator_plays SET outcome='lose'; conn.commit(); return 400
CashoutCrashPlay ==
    /\ \E q \in Reqs :
         /\ q.pc = "co_crash_play"
         /\ ~PlayLocked(q, q.round_id)
         /\ Finish(q, [Response(q, 400, "crashed") EXCEPT
                          !.crash_point = q.round_data.crash_point],
                   OnExit(RecordLoss(q)), "crashed_by_cashout")
    /\ UNCHANGED next_id

\* UPDATE aviator_plays SET cashout_multiplier, payout, outcome='win'
CashoutUpdatePlay ==
    /\ \E q \in Reqs :
         /\ q.pc = "co_upd_play"
         /\ ~PlayLocked(q, q.round_id)
         /\ Step(q, [q EXCEPT !.pc = "co_upd_round",
                       !.tx.plays = Merge(@, RecordWin(q))])
    /\ UNCHANGED next_id

\* UPDATE aviator_rounds SET status='cashed', end_time=now WHERE id;
\* UPDATE users SET balance = balance + payout; SELECT balance;
\* conn.commit(); return multiplier, payout, balance.
\* (The holder of a users row lock never waits for another lock, so the
\* wait for it is folded into the wait for the round row.)
CashoutSettle ==
    /\ \E q \in Reqs :
         /\ q.pc = "co_upd_round"
         /\ ~RoundLocked(q, q.round_id)
         /\ ~UserLocked(q, q.chat_id)
         /\ LET bal == Credit(BalOf(q)[q.chat_id], q.payout)
                t == [q.tx EXCEPT
                        !.rounds = Merge(@, SetStatus(q, "cashed", now)),
                        !.bal = Merge(@, (q.chat_id :> bal))]
            IN  Finish(q, [Response(q, 200, "cashed") EXCEPT
                              !.multiplier = Round2Mult(q.m),
                              !.payout = Round2Money(q.payout),
                              !.balance = bal],
                       OnExit(t), "cashed")
    /\ UNCHANGED next_id

\* ----------------------------------------------------- api_aviator_status
\* request arrives; `if not chat_id or not round_id: return 400`;
\* SELECT ... FROM aviator_rounds WHERE id AND chat_id; branch on status
StatusRequest ==
    /\ BagCardinality(inflight) < PoolSize
    /\ \E u \in Users, r \in RoundIds :
         LET q == NewReq("status", u, r, 0, Null)
             found == FindRound(r, u)
             q2 == [q EXCEPT !.round_data = rounds[r]]
         IN  IF r = 0
             THEN Finish(q, Response(q, 400, "invalid"), EmptyTx, "none")
             ELSE IF ~found
             THEN Finish(q, Response(q, 404, "not_found"), OnExit(q.tx), "none")
             ELSE IF IsActive(rounds[r].status)
             THEN Admit([q2 EXCEPT !.pc = "qs_clock"])
             ELSE IF rounds[r].status = "crashed"
             THEN Finish(q, [Response(q2, 200, "crashed") EXCEPT
                                !.crash_point = rounds[r].crash_point],
                         OnExit(q.tx), "none")
             ELSE Admit([q2 EXCEPT !.pc = "qs_sel_play"])
    /\ UNCHANGED next_id

\* status 'cashed': SELECT cashout_multiplier, payout FROM aviator_plays
StatusSelectPlay ==
    /\ \E q \in Reqs :
         /\ q.pc = "qs_sel_play"
         /\ Finish(q, [Response(q, 200, "cashed") EXCEPT
                          !.multiplier = Round2Mult(PlaysOf(q)[q.round_id].cashout_multiplier),
                          !.payout = Round2Money(PlaysOf(q)[q.round_id].payout)],
                   OnExit(q.tx), "none")
    /\ UNCHANGED next_id

\* status 'active': read the clock, compute current_multiplier
StatusClock ==
    /\ \E q \in Reqs :
         /\ q.pc = "qs_clock"
         /\ LET m == CurrentMultiplier(q.client, now, q.round_data.start_time)
            IN  IF m = OverflowError
                THEN Finish(q, Response(q, 500, "overflow"), OnException(q.tx),
                            "none")
                ELSE IF HasCrashed(m, q.round_data.crash_point)
                THEN Step(q, [q EXCEPT !.pc = "qs_crash_round", !.t = now,
                                       !.m = m])
                ELSE Finish(q, [Response(q, 200, "active") EXCEPT
                                   !.seed = q.round_data.seed,
                                   !.multiplier = Round2Mult(m)],
                            OnExit(q.tx), "none")
    /\ UNCHANGED next_id

\* UPDATE aviator_rounds SET status='crashed', end_time=now WHERE id
StatusCrashRound ==
    /\ \E q \in Reqs :
         /\ q.pc = "qs_crash_round"
         /\ ~RoundLocked(q, q.round_id)
         /\ Step(q, [q EXCEPT !.pc = "qs_crash_play",
                       !.tx.rounds = Merge(@, SetStatus(q, "crashed", now))])
    /\ UNCHANGED next_id

\* UPDATE aviator_plays SET outcome='lose'; conn.commit(); the response
\* reports status 'crashed' with the crash point
StatusCrashPlay ==
    /\ \E q \in Reqs :
         /\ q.pc = "qs_crash_play"
         /\ ~PlayLocked(q, q.round_id)
         /\ Finish(q, [Response(q, 200, "crashed") EXCEPT
                          !.multiplier = Round2Mult(q.m),
                          !.crash_point = q.round_data.crash_point],
                   OnExit(RecordLoss(q)), "crashed_by_status")
    /\ UNCHANGED next_id

\* ---------------------------------------------------------------- api_tap
\* request arrives; UPDATE users SET balance = COALESCE(balance,0) + 0.01
\* WHERE chat_id AND payment_status='registered'; conn.commit(); SELECT
\* balance; return it.
\* (A tap that has to wait for the users row holds no lock and has done
\* nothing yet, so it is the tap that arrives when the row is released; the
\* SELECT after the commit only fills the response.)
TapRequest ==
    /\ resp = NoResp
    /\ BagCardinality(inflight) < PoolSize
    /\ admitted < MaxRequests
    /\ \E u \in Users :
         LET q == NewReq("tap", u, 0, 0, Null)
             t == IF u \in Registered
                  THEN [EmptyTx EXCEPT
                          !.bal = (u :> Credit(balance[u], TapAmount))]
                  ELSE EmptyTx
         IN  /\ ~UserLocked(q, u)
             /\ Install(q, OnExit(t), 0, "none")
             /\ resp' = [Response(q, 200, "tapped") EXCEPT
                            !.balance = Merge(balance, t.bal)[u]]
    /\ admitted' = admitted + 1
    /\ UNCHANGED <<now, next_id, inflight, probe>>

\* ------------------------------------------------------------- failures
\* a statement raises (storage fault): the connection block rolls back;
\* a failed INSERT after a successful one has used up a sequence value
StorageFailure ==
    \E q \in Reqs :
      /\ Finish(q, Response(q, 500, "error"), OnException(q.tx), "none")
      /\ \/ UNCHANGED next_id
         \/ q.pc = "st_insert" /\ next_id' = next_id + 1

\* PostgreSQL breaks a lock cycle by aborting one of the waiting statements
DeadlockAbort ==
    /\ \E q \in Reqs :
         /\ InDeadlock(q)
         /\ Finish(q, Response(q, 500, "deadlock"), OnException(q.tx), "none")
    /\ UNCHANGED next_id

\* the response of the step just taken goes out to the client
Deliver ==
    /\ resp # NoResp
    /\ resp' = NoResp
    /\ UNCHANGED <<now, balance, rounds, plays, next_id, inflight, hist,
                   admitted, probe, ledger>>

Next ==
    \/ Tick \/ LongIdle
    \/ TapRequest
    \/ StartRequest \/ StartDebit \/ StartInsert
    \/ CashoutRequest \/ CashoutClock \/ CashoutCrashRound \/ CashoutCrashPlay
    \/ CashoutUpdatePlay \/ CashoutSettle
    \/ StatusRequest \/ StatusSelectPlay \/ StatusClock
    \/ StatusCrashRound \/ StatusCrashPlay
    \/ StorageFailure \/ DeadlockAbort
    \/ Deliver

Spec == Init /\ [][Next]_vars

\* -------------------------------------------- requests one at a time
\* a client that sends a request only when no request is being handled
Quiet == inflight = EmptyBag

SeqTapRequest     == Quiet /\ TapRequest
SeqStartRequest   == Quiet /\ StartRequest
SeqCashoutRequest == Quiet /\ CashoutRequest
SeqStatusRequest  == Quiet /\ StatusRequest

NextSequential ==
    \/ Tick \/ LongIdle
    \/ SeqTapRequest
    \/ SeqStartRequest \/ StartDebit \/ StartInsert
    \/ SeqCashoutRequest \/ CashoutClock \/ CashoutCrashRound
    \/ CashoutCrashPlay \/ CashoutUpdatePlay \/ CashoutSettle
    \/ SeqStatusRequest \/ StatusSelectPlay \/ StatusClock
    \/ StatusCrashRound \/ StatusCrashPlay
    \/ StorageFailure
    \/ Deliver

SpecSequential == Init /\ [][NextSequential]_vars

\* ------------------------------------------- the functions on their own
\* elapsed times handed to _multiplier_at_ms: the first ticks of a round
\* and two times of a round left alone for more than 98 minutes
ElapsedInputs == {k * TickMs : k \in 0 .. MaxElapsed}
                    \cup {5916 * TickMs, 6000 * TickMs}

InitFunctions ==
    /\ now = 0
    /\ balance = InitBalance
    /\ rounds = <<>>
    /\ plays = <<>>
    /\ next_id = 1
    /\ inflight = EmptyBag
    /\ resp = NoResp
    /\ hist = <<>>
    /\ admitted = 0
    /\ ledger = NoLedger
    /\ probe \in [t1 : ElapsedInputs, t2 : ElapsedInputs, u : AllDraws,
                  m1 : {Null}, m2 : {Null}, crash : {Null}]

\* _multiplier_at_ms is called with each of the two elapsed times
ApplyMultiplier ==
    /\ probe.m1 = Null
    /\ probe' = [probe EXCEPT !.m1 = _multiplier_at_ms(probe.t1),
                              !.m2 = _multiplier_at_ms(probe.t2)]
    /\ UNCHANGED <<now, balance, rounds, plays, next_id, inflight, resp, hist,
                   admitted, ledger>>

\* _sample_crash_point is called and random.random() returns probe.u
ApplySampler ==
    /\ probe.crash = Null
    /\ probe' = [probe EXCEPT !.crash = _sample_crash_point(probe.u)]
    /\ UNCHANGED <<now, balance, rounds, plays, next_id, inflight, resp, hist,
                   admitted, ledger>>

NextFunctions == ApplyMultiplier \/ ApplySampler

SpecFunctions == InitFunctions /\ [][NextFunctions]_vars

\* ================================================================ claims
HouseEdgePercents == 0 .. 99    \* candidate values of the houseEdge setting
TruncCent(x) == (x \div Cent) * Cent

\* the call that produced response x found its round already terminal
OnTerminal(x) ==
    \/ x.kind = "status" /\ x.seen \in Terminal
    \/ /\ x.kind = "cashout" /\ x.at = "arrive"
       /\ x.round_id \in DOMAIN rounds
       /\ rounds[x.round_id].chat_id = x.chat_id
       /\ rounds[x.round_id].status \in Terminal

\* C1: of a CashOut that pays and a QueryStatus that records the crash of
\* the same round, at most one commits its settlement: no round has both a
\* committed payout and a committed crash detection by QueryStatus.
C1_SingleSettlement ==
    \A r \in DOMAIN hist :
        ~(hist[r].cashed >= 1 /\ hist[r].crashed_by_status >= 1)

\* C2: the payout of a round is credited to the balance at most once,
\* however many CashOut requests for the round overlap.
C2_CreditedAtMostOnce ==
    \A r \in DOMAIN hist : hist[r].cashed <= 1

\* C3: a round whose committed status is crashed or cashed keeps that
\* status in every later step.
C3_TerminalStatusFinal ==
    [][\A r \in DOMAIN rounds :
          rounds[r].status \in Terminal =>
              rounds'[r].status = rounds[r].status]_vars

C5_BetConservation ==
    [][/\ (resp'.kind = "start" /\ resp'.code = 200) =>
            /\ resp'.round_id \notin DOMAIN rounds
            /\ resp'.round_id \in DOMAIN rounds'
            /\ plays'[resp'.round_id].bet_amount = resp'.bet_amount
            /\ balance'[resp'.chat_id] = balance[resp'.chat_id] - resp'.bet_amount
       /\ \A r \in (DOMAIN rounds') \ (DOMAIN rounds) :
            resp'.kind = "start" /\ resp'.code = 200 /\ resp'.round_id = r]_vars

\* witness of C5: a StartRound has succeeded on the untouched balance
C5_Witness ==
    /\ resp.kind = "start" /\ resp.code = 200
    /\ resp.bet_amount > 0
    /\ balance[resp.chat_id] = InitBalance[resp.chat_id] - resp.bet_amount

\* C6: StartRound debits only a balance that covers the bet, so no
\* committed balance is ever negative.
C6_BalanceNeverNegative ==
    \A u \in Users : balance[u] >= 0

\* C7: in every step the committed rounds and plays cover the same ids, a
\* committed balance goes down only together with the appearance of a round
\* and play of that player for exactly that amount, and a StartRound that
\* does not succeed leaves balances, rounds and plays as they were.
C7_StartAtomic ==
    [][/\ DOMAIN plays' = DOMAIN rounds'
       /\ \A u \in Users :
            balance'[u] < balance[u] =>
               \E r \in (DOMAIN rounds') \ (DOMAIN rounds) :
                  /\ rounds'[r].chat_id = u
                  /\ r \in DOMAIN plays'
                  /\ balance'[u] = balance[u] - plays'[r].bet_amount
       /\ (resp'.kind = "start" /\ resp'.code # 200) => UNCHANGED db]_vars

\* witness of C7: a StartRound failed after its debit statement and nothing
\* of it is left
C7_Witness ==
    /\ resp.kind = "start" /\ resp.code = 500 /\ resp.at = "st_insert"
    /\ balance = InitBalance
    /\ rounds = <<>> /\ plays = <<>>

\* C8: a CashOut that finds its round already crashed or cashed returns the
\* recorded terminal outcome, not an error.
C8_TerminalCashoutReturnsOutcome ==
    (resp.kind = "cashout" /\ OnTerminal(resp)) =>
        /\ resp.code = 200
        /\ resp.status = rounds[resp.round_id].status
        /\ resp.status = "cashed" =>
              resp.payout = Round2Money(plays[resp.round_id].payout)
        /\ resp.status = "crashed" =>
              resp.crash_point = rounds[resp.round_id].crash_point

\* C9: a QueryStatus or CashOut that finds its round already crashed or
\* cashed changes no round, no play and no balance.
C9_TerminalCallsChangeNothing ==
    [][OnTerminal(resp') => UNCHANGED db]_vars

\* witness of C9: QueryStatus has answered for a cashed round
C9_Witness ==
    /\ resp.kind = "status" /\ resp.seen = "cashed" /\ resp.code = 200
    /\ rounds[resp.round_id].status = "cashed"

\* C10: the payout recorded for a cashed round with bet b, recorded
\* multiplier m and some house edge e is b + max(0, b*(m-1))*(1-e) truncated
\* down to the cent, is not negative and does not exceed b*m.
C10_PayoutFloor ==
    \A r \in DOMAIN rounds :
        rounds[r].status = "cashed" =>
            LET b == plays[r].bet_amount
                m == plays[r].cashout_multiplier
                profit == Max(0, (b * (m - Scale)) \div Scale)
            IN  /\ plays[r].payout >= 0
                /\ plays[r].payout * Scale <= b * m
                /\ \E e \in HouseEdgePercents :
                      plays[r].payout =
                          TruncCent(b + (profit * (100 - e)) \div 100)

\* the bounds of the example configuration: minBet = 1, maxBet = 1000
\* currency units of 100 cents
MinBet == 100 * Cent
MaxBet == 100000 * Cent
OutOfBounds(b) == b < MinBet \/ b > MaxBet

\* C11: a StartRound whose bet_amount is below minBet or above maxBet is
\* not carried out: no such request goes on to the debit, and its response
\* is the 400 of an invalid bet.
C11_InvalidBetRejected ==
    /\ \A q \in Reqs : q.kind = "start" => ~OutOfBounds(q.bet_amount)
    /\ (resp.kind = "start" /\ OutOfBounds(resp.bet_amount)) =>
           resp.code = 400 /\ resp.status = "invalid"

\* the request q is in the bag after the step and was given its connection
\* by the step
Arrived(q) == CopiesIn(q, inflight') > CopiesIn(q, inflight) /\ admitted' > admitted

\* C12: a StartRound of a registered player with a positive bet_amount that
\* the balance does not cover is answered on arrival with the 4xx error
\* "Insufficient balance", changes no balance, round or play and uses no
\* round id, and never goes on to the debit.
C12_InsufficientBalance ==
    [][/\ \A q \in BagToSet(inflight') :
            (q.kind = "start" /\ Arrived(q)) =>
                balance[q.chat_id] >= q.bet_amount
       /\ (/\ resp'.kind = "start" /\ resp'.at = "arrive"
           /\ resp'.chat_id \in Registered /\ resp'.bet_amount > 0
           /\ balance[resp'.chat_id] < resp'.bet_amount) =>
               /\ resp'.status = "insufficient"
               /\ resp'.code \in 400 .. 499
               /\ UNCHANGED <<db, next_id, inflight>>]_vars

\* witness of C12: a StartRound was refused because an earlier round had
\* used up the balance
C12_Witness ==
    /\ resp.kind = "start" /\ resp.status = "insufficient"
    /\ balance[resp.chat_id] < resp.bet_amount
    /\ balance[resp.chat_id] < InitBalance[resp.chat_id]

\* the round named by x does not exist or belongs to another player
NotOwned(x) ==
    x.round_id \notin DOMAIN rounds \/ rounds[x.round_id].chat_id # x.chat_id

\* C13: a QueryStatus or CashOut that names a round id that does not exist
\* or a round of another player is answered on arrival with 404 (or 403),
\* changes no round, play or balance, and never goes on to read the clock
\* or to write, whatever the status and age of the round.
C13_UnknownOrForeignRound ==
    [][/\ \A q \in BagToSet(inflight') :
            (q.kind \in {"cashout", "status"} /\ Arrived(q)) => ~NotOwned(q)
       /\ (/\ resp'.kind \in {"cashout", "status"} /\ resp'.at = "arrive"
           /\ resp'.round_id # 0 /\ NotOwned(resp')) =>
               /\ resp'.code \in {403, 404}
               /\ UNCHANGED <<db, inflight>>]_vars

\* witness of C13: another player's CashOut on a running round was refused
C13_Witness ==
    /\ resp.kind = "cashout" /\ resp.code = 404
    /\ resp.round_id \in DOMAIN rounds
    /\ rounds[resp.round_id].chat_id # resp.chat_id
    /\ rounds[resp.round_id].status = "active"
    /\ balance[resp.chat_id] = InitBalance[resp.chat_id]

\* a round row without its crash point
PublicRound(round) == [round EXCEPT !.crash_point = Null]

\* the response of kind k about round r, built at clock value t from the
\* row `round` and the play row `play` alone
RunningView(k, r, round, play, t) ==
    IF k = "start"
    THEN [NoResp EXCEPT !.code = 200, !.kind = "start", !.status = "started",
                        !.chat_id = round.chat_id, !.round_id = r,
                        !.bet_amount = play.bet_amount, !.seed = round.seed,
                        !.start_time = round.start_time, !.at = "st_insert"]
    ELSE [NoResp EXCEPT !.code = 200, !.kind = "status", !.status = "active",
                        !.seen = "active",
                        !.chat_id = round.chat_id, !.round_id = r,
                        !.seed = round.seed, !.at = "qs_clock",
                        !.multiplier = Round2Mult(_multiplier_at_ms(
                                          ElapsedMs(t, round.start_time)))]

\* C14: the response of a successful StartRound and every QueryStatus
\* response that reports a running round are what the round row without
\* its crash point determines, so they are the same for two rounds that
\* differ only in crash_point; a response that carries a crash point
\* reports a terminal status.
C14_NoCrashPointLeak ==
    /\ resp.crash_point # Null => resp.status \in Terminal
    /\ resp.status \in {"started", "active"} =>
           resp = RunningView(resp.kind, resp.round_id,
                              PublicRound(rounds[resp.round_id]),
                              plays[resp.round_id], now)

\* witness of C14: QueryStatus has reported a round as running one tick
\* before its multiplier reaches the crash point
C14_Witness ==
    /\ resp.kind = "status" /\ resp.status = "active"
    /\ resp.multiplier # Null
    /\ rounds[resp.round_id].crash_point
          <= _multiplier_at_ms(ElapsedMs(now + 1, rounds[resp.round_id].start_time))

CrashBranch(q) == q.pc \in {"co_crash_round", "co_crash_play"}

\* C15: the multiplier a CashOut settles with is the growth function of the
\* server clock value it read and the stored start_time; two CashOut
\* requests of the same player for the same round that read the same clock
\* value take the same branch with the same multiplier and payout, whatever
\* else their bodies hold.
C15_ServerClockOnly ==
    /\ \A q \in Reqs :
          (q.kind = "cashout" /\ q.t # Null) =>
              q.m = _multiplier_at_ms(
                        ElapsedMs(q.t, rounds[q.round_id].start_time))
    /\ \A q1, q2 \in Reqs :
          (/\ q1.kind = "cashout" /\ q2.kind = "cashout"
           /\ q1.round_id = q2.round_id /\ q1.chat_id = q2.chat_id
           /\ q1.t # Null /\ q1.t = q2.t) =>
              /\ q1.m = q2.m
              /\ q1.payout = q2.payout
              /\ CrashBranch(q1) <=> CrashBranch(q2)

\* witness of C15: two CashOut requests for one round that read the same
\* clock value, one of them carrying a multiplier of its own
C15_Witness ==
    \E q1, q2 \in Reqs :
       /\ q1.kind = "cashout" /\ q2.kind = "cashout"
       /\ q1.round_id = q2.round_id
       /\ q1.t # Null /\ q1.t = q2.t
       /\ q1.client = Null /\ q2.client # Null
       /\ q2.client # q2.m

\* C16: _multiplier_at_ms returns a multiplier for every elapsed time, 1.0
\* at elapsed time 0, and a larger one for a larger elapsed time.
C16_StrictlyIncreasing ==
    probe.m1 # Null =>
        /\ probe.m1 # OverflowError /\ probe.m2 # OverflowError
        /\ probe.t1 = 0 => probe.m1 = Scale
        /\ probe.t2 > probe.t1 => probe.m2 > probe.m1

\* C17: whatever random.random() returns, 0 included, the crash point the
\* sampler returns is at least 1.02.
C17_CrashPointFloor ==
    probe.crash # Null => probe.crash >= 10200

\* witness of C17: the sampler has returned for the draw 0
C17_Witness ==
    probe.u = 0 /\ probe.crash # Null

\* C18: no request waits for a row lock in a cycle of waiting requests.
C18_NoCircularWait ==
    \A q \in Reqs : ~InDeadlock(q)

\* C19: QueryStatus reports a round as crashed by its own detection only
\* if no payout of the round has been committed.
C19_StatusReportsRecordedState ==
    (resp.kind = "status" /\ resp.at = "qs_crash_play"
        /\ resp.status = "crashed") =>
            hist[resp.round_id].cashed = 0

\* C20: in every committed state a running round has outcome none and no
\* cashout_multiplier or payout, a crashed round has outcome lose and
\* neither of them, and a cashed round has outcome win and both.
C20_RoundAndPlayAgree ==
    \A r \in DOMAIN rounds :
        LET unset == plays[r].cashout_multiplier = Null /\ plays[r].payout = Null
            set   == plays[r].cashout_multiplier # Null /\ plays[r].payout # Null
        IN  /\ rounds[r].status = "active" => plays[r].outcome = "none" /\ unset
            /\ rounds[r].status = "crashed" => plays[r].outcome = "lose" /\ unset
            /\ rounds[r].status = "cashed" => plays[r].outcome = "win" /\ set

\* C21: the end_time of a running round is unset, the step that makes a
\* round terminal sets it, and once set it is never given another value.
C21_EndTimeWrittenOnce ==
    [][\A r \in DOMAIN rounds :
          /\ rounds[r].status = "active" => rounds[r].end_time = Null
          /\ (rounds[r].status = "active" /\ rounds'[r].status \in Terminal) =>
                 rounds'[r].end_time # Null
          /\ rounds[r].end_time # Null =>
                 rounds'[r].end_time = rounds[r].end_time]_vars

\* C22: no step changes the crash_point, seed, start_time or chat_id of an
\* existing round or the bet_amount or chat_id of its play, and the round
\* row a request compares against holds the crash_point of the round.
C22_RoundDataImmutable ==
    [][/\ \A r \in DOMAIN rounds :
            /\ r \in DOMAIN rounds' /\ r \in DOMAIN plays'
            /\ rounds'[r].crash_point = rounds[r].crash_point
            /\ rounds'[r].seed = rounds[r].seed
            /\ rounds'[r].start_time = rounds[r].start_time
            /\ rounds'[r].chat_id = rounds[r].chat_id
            /\ plays'[r].bet_amount = plays[r].bet_amount
            /\ plays'[r].chat_id = plays[r].chat_id
       /\ \A q \in Reqs :
            q.round_data # NoRow =>
                q.round_data.crash_point = rounds[q.round_id].crash_point]_vars

\* witness of C22: a round has been paid out and another round of the
\* player has been created since, or a tap was made
C22_Witness ==
    \E r \in DOMAIN rounds :
       /\ rounds[r].status = "cashed"
       /\ plays[r].payout > plays[r].bet_amount
       /\ \/ \E r2 \in DOMAIN rounds : r2 > r
          \/ ledger[rounds[r].chat_id].tap > 0

\* C23: every committed balance is the initial balance minus the bets of
\* the committed start debits plus the payouts of the committed cash-out
\* credits plus the committed tap credits.
C23_NoLostUpdate ==
    \A u \in Users :
        balance[u] = InitBalance[u] - ledger[u].start + ledger[u].cashout
                        + ledger[u].tap

\* witness of C23: a start debit, a tap credit and a cash-out credit of one
\* player have been committed
C23_Witness ==
    /\ resp.kind = "cashout" /\ resp.status = "cashed"
    /\ ledger[resp.chat_id].start > 0
    /\ ledger[resp.chat_id].tap > 0
    /\ ledger[resp.chat_id].cashout > 0

\* the multiplier of round r at clock value t has reached its crash point
PastCrash(r, t) ==
    LET m == _multiplier_at_ms(ElapsedMs(t, rounds[r].start_time))
    IN  m = OverflowError \/ m >= rounds[r].crash_point

\* C24: a round stops being running only in the step that ends a
\* QueryStatus or CashOut of its owner for it, and a QueryStatus or CashOut
\* of the owner that ends, without a storage fault, when the multiplier has
\* reached the crash point does not leave the round running.
C24_LazyCrashDetection ==
    [][/\ \A r \in DOMAIN rounds :
            (rounds[r].status = "active" /\ rounds'[r].status # "active") =>
                /\ resp'.kind \in {"status", "cashout"}
                /\ resp'.round_id = r
                /\ resp'.chat_id = rounds[r].chat_id
       /\ (/\ resp'.kind \in {"status", "cashout"}
           /\ resp'.round_id \in DOMAIN rounds'
           /\ rounds'[resp'.round_id].chat_id = resp'.chat_id
           /\ resp'.status \notin {"error", "deadlock"}
           /\ PastCrash(resp'.round_id, now)) =>
               rounds'[resp'.round_id].status # "active"]_vars

\* C25: a step that ends a QueryStatus, or a CashOut with "Round crashed",
\* changes no balance, and no request of these two kinds holds an
\* uncommitted balance write.
C25_NoRefund ==
    [][/\ (\/ resp'.kind = "status"
           \/ resp'.kind = "cashout" /\ resp'.status = "crashed") =>
               balance' = balance
       /\ \A q \in BagToSet(inflight') :
            (q.kind = "status" \/ CrashBranch(q)) => q.tx.bal = <<>>]_vars

\* witness of C25: QueryStatus has recorded the crash of a round and the
\* balance is still the initial balance less the bet
C25_Witness ==
    /\ resp.kind = "status" /\ resp.at = "qs_crash_play"
    /\ rounds[resp.round_id].status = "crashed"
    /\ hist[resp.round_id].cashed = 0
    /\ balance[resp.chat_id] =
          InitBalance[resp.chat_id] - plays[resp.round_id].bet_amount

\* C26: a step that ends a CashOut or QueryStatus for round r changes no
\* other round or play and no balance of another player, and no request of
\* these two kinds holds an uncommitted write of another round, play or
\* player.
C26_OtherRoundsUntouched ==
    [][/\ resp'.kind \in {"cashout", "status"} =>
            /\ DOMAIN rounds' = DOMAIN rounds
            /\ \A r \in DOMAIN rounds :
                  r # resp'.round_id =>
                      rounds'[r] = rounds[r] /\ plays'[r] = plays[r]
            /\ \A u \in Users :
                  u # resp'.chat_id => balance'[u] = balance[u]
       /\ \A q \in BagToSet(inflight') :
            q.kind \in {"cashout", "status"} =>
                /\ DOMAIN q.tx.rounds \subseteq {q.round_id}
                /\ DOMAIN q.tx.plays \subseteq {q.round_id}
                /\ DOMAIN q.tx.bal \subseteq {q.chat_id}]_vars

\* witness of C26: a CashOut was paid while another round of the same
\* player is running
C26_Witness ==
    /\ resp.kind = "cashout" /\ resp.status = "cashed"
    /\ \E r \in DOMAIN rounds :
          /\ r # resp.round_id
          /\ rounds[r].chat_id = resp.chat_id
          /\ rounds[r].status = "active"
          /\ plays[r].outcome = "none"

\* C27: the payout in the response of a successful CashOut is the payout
\* stored in the play record, which is the amount added to the balance.
C27_ReturnedPayoutIsCredited ==
    (resp.kind = "cashout" /\ resp.status = "cashed") =>
        resp.payout = plays[resp.round_id].payout

\* C28: the step that ends a successful StartRound adds exactly one round,
\* under an id no round was ever given, with status 'active', start_time
\* the clock value of the step and end_time unset, and exactly one play for
\* it with the bet_amount, outcome none and no payout; no other step adds
\* a round or a play.
C28_StartCreatesOneRound ==
    [][/\ (resp'.kind = "start" /\ resp'.code = 200) =>
            LET id == resp'.round_id
            IN  /\ id >= next_id /\ id \notin DOMAIN rounds
                /\ DOMAIN rounds' = DOMAIN rounds \cup {id}
                /\ DOMAIN plays' = DOMAIN plays \cup {id}
                /\ rounds'[id].chat_id = resp'.chat_id
                /\ rounds'[id].status = "active"
                /\ rounds'[id].start_time = now
                /\ rounds'[id].end_time = Null
                /\ plays'[id] = [chat_id |-> resp'.chat_id,
                                 bet_amount |-> resp'.bet_amount,
                                 cashout_multiplier |-> Null,
                                 payout |-> Null, outcome |-> "none"]
       /\ ~(resp'.kind = "start" /\ resp'.code = 200) =>
            DOMAIN rounds' = DOMAIN rounds /\ DOMAIN plays' = DOMAIN plays]_vars

\* witness of C28: a StartRound has succeeded with id 2 after a StartRound
\* that failed in its INSERT had used up id 1
C28_Witness ==
    /\ resp.kind = "start" /\ resp.code = 200
    /\ resp.round_id = 2
    /\ DOMAIN rounds = {2} /\ DOMAIN plays = {2}

RECURSIVE SumOver(_, _)
SumOver(S, f) ==
    IF S = {} THEN 0
    ELSE LET x == CHOOSE y \in S : TRUE IN f[x] + SumOver(S \ {x}, f)

RoundsOfUser(u) == {r \in DOMAIN rounds : rounds[r].chat_id = u}

\* C29: the committed balance of a player without tap credits is the
\* initial balance minus the bets of all their rounds plus the recorded
\* payouts of their cashed rounds.
C29_LedgerConservation ==
    \A u \in Users :
        ledger[u].tap = 0 =>
            balance[u] =
                InitBalance[u]
                - SumOver(RoundsOfUser(u),
                          [r \in DOMAIN plays |-> plays[r].bet_amount])
                + SumOver({r \in RoundsOfUser(u) : rounds[r].status = "cashed"},
                          [r \in DOMAIN plays |-> plays[r].payout])

\* payout of the settlement rule for bet b, multiplier m, house edge e %
SettlementPayout(b, m, e) ==
    TruncCent(b + (Max(0, (b * (m - Scale)) \div Scale) * (100 - e)) \div 100)

\* the clock value read by the call that is ending
CallTime ==
    IF \E q \in Reqs : q.t # Null
    THEN (CHOOSE q \in Reqs : q.t # Null).t
    ELSE now

\* C30: with requests handled one at a time, the step that ends a call
\* changes the stored state as the state machine running -> {crashed,
\* cashed} does for that call at the clock value the call read: a call on
\* a running round of the caller past its crash point makes it crashed
\* with outcome lose and the balance unchanged, a CashOut before it makes
\* it cashed with outcome win and the payout of the settlement rule added
\* to the balance, and any other QueryStatus or CashOut changes nothing.
C30_SequentialRefinement ==
    [][(resp'.kind \in {"status", "cashout"} /\ resp'.status # "error") =>
          LET r == resp'.round_id
              u == resp'.chat_id
          IN  IF r \in DOMAIN rounds /\ rounds[r].chat_id = u
                   /\ rounds[r].status = "active"
              THEN IF PastCrash(r, CallTime)
                   THEN /\ rounds'[r].status = "crashed"
                        /\ plays'[r].outcome = "lose"
                        /\ plays'[r].payout = Null
                        /\ balance' = balance
                   ELSE IF resp'.kind = "cashout"
                   THEN /\ rounds'[r].status = "cashed"
                        /\ plays'[r].outcome = "win"
                        /\ \E e \in HouseEdgePercents :
                              LET p == SettlementPayout(plays[r].bet_amount,
                                          _multiplier_at_ms(ElapsedMs(CallTime,
                                              rounds[r].start_time)), e)
                              IN  /\ plays'[r].payout = p
                                  /\ balance'[u] = balance[u] + p
                   ELSE UNCHANGED db
              ELSE UNCHANGED db]_vars
====
